---- MODULE Spec2Model ----
(***************************************************************************)
(* Model of tfx_addons/sampler/executor.py: the class-rebalancing sampler. *)
(*                                                                         *)
(*   Spec           the Beam pipeline built by sample(): read_tfexamples,  *)
(*                  sample_examples (CountPerKey, FilterNullCount,         *)
(*                  GetSample, GroupBylabel, FilterNull, Undersample,      *)
(*                  ExtractNull, Merge).                                   *)
(*   SpecSampleData direct calls of sample_data with arbitrary arguments.  *)
(*   SpecCombine    find_minimum / find_maximum applied to worker-local    *)
(*                  accumulators and then to the partial results.          *)
(*   SpecDo         Executor.Do: routing of the input splits.              *)
(***************************************************************************)
EXTENDS Integers, Sequences, FiniteSets

VARIABLES
    \* ---- the pipeline of sample() ----
    input,          \* the records of the split (tf.Example protos), a sequence
    keep_classes,   \* exec property keep_classes: a set of strings
    undersample,    \* exec property: TRUE = undersample, FALSE = oversample
    data_ready,     \* "MapToLabel" has produced the K-V PCollection `data`
    data,           \* sequence of <<class_label, record index>>
    counted,        \* how many elements of `data` "CountPerKey" has consumed
    val_ready,      \* "GetSample" has emitted its singleton
    val,            \* the singleton: the global sample size
    sampled,        \* labels for which "Undersample" (sample_data) has run
    side_used,      \* label -> the `side` argument its sample_data call got
    res,            \* label -> sequence of record indices emitted for it
    null_done,      \* "ExtractNull"/"NullValues" has run
    null,           \* sequence of record indices passed through
    failed,         \* a sample_data call raised
    merged_done,    \* "Merge PCollections" has run
    merged,         \* record index -> number of occurrences in the output
    \* ---- direct calls of sample_data ----
    sd_val, sd_undersample, sd_side, sd_called, sd_raised, sd_out,
    \* ---- worker-local combining ----
    cb_counts, cb_undersample, cb_worker, cb_partial, cb_result_ready, cb_result,
    \* ---- Executor.Do ----
    in_split_names, splits, copy_others, do_pc, out_split_names, split_data,
    pending, sampled_splits, copied_splits

pipe_vars == <<input, keep_classes, undersample, data_ready, data, counted,
               val_ready, val, sampled, side_used, res, null_done,
               null, failed, merged_done, merged>>
sd_vars == <<sd_val, sd_undersample, sd_side, sd_called, sd_raised, sd_out>>
cb_vars == <<cb_counts, cb_undersample, cb_worker, cb_partial,
             cb_result_ready, cb_result>>
do_vars == <<in_split_names, splits, copy_others, do_pc, out_split_names,
             split_data, pending, sampled_splits, copied_splits>>
vars == <<pipe_vars, sd_vars, cb_vars, do_vars>>

-----------------------------------------------------------------------------
(* Bounds *)

MaxRecords == 4     \* records in one split
MaxGroup == 3       \* records in the group handed to a direct sample_data call
MaxSide == 4        \* largest `side` of a direct sample_data call
MaxCounts == 3      \* per-label counts fed to the combiner
MaxCount == 3       \* largest per-label count fed to the combiner
MaxWorkers == 2     \* worker-local accumulators of the combiner

-----------------------------------------------------------------------------
(* Python values *)

\* A class label: Python None, an int, or a str.
PyNone == [t |-> "none", i |-> 0, s |-> ""]
PyInt(n) == [t |-> "int", i |-> n, s |-> ""]
PyStr(x) == [t |-> "str", i |-> 0, s |-> x]

Digit(d) ==
    CASE d = 0 -> "0" [] d = 1 -> "1" [] d = 2 -> "2" [] d = 3 -> "3"
      [] d = 4 -> "4" [] d = 5 -> "5" [] d = 6 -> "6" [] d = 7 -> "7"
      [] d = 8 -> "8" [] d = 9 -> "9"

RECURSIVE NatStr(_)
NatStr(n) == IF n < 10 THEN Digit(n) ELSE NatStr(n \div 10) \o Digit(n % 10)

\* str(x) for a label value
py_str(x) ==
    IF x.t = "none" THEN "None"
    ELSE IF x.t = "int" THEN (IF x.i < 0 THEN "-" \o NatStr(-x.i) ELSE NatStr(x.i))
    ELSE x.s

\* bool(x) for a label value
py_bool(x) ==
    IF x.t = "none" THEN FALSE
    ELSE IF x.t = "int" THEN x.i # 0
    ELSE x.s # ""

\* x == 0 for a label value
py_eq_zero(x) == x.t = "int" /\ x.i = 0

\* A tf.Example restricted to the label feature: its int64_list and bytes_list.
Example(ints, bytes) == [int64_list |-> ints, bytes_list |-> bytes]

Examples ==
    { Example(<<>>, <<>>),          \* label feature missing
      Example(<<0>>, <<>>),
      Example(<<1, 0>>, <<>>),
      Example(<<>>, <<"">>),
      Example(<<>>, <<"a", "">>) }

KeepClassesChoices == { {}, {"0"}, {"", "a"} }

RECURSIVE SeqsUpTo(_, _)
SeqsUpTo(S, n) ==
    IF n = 0 THEN { <<>> }
    ELSE LET shorter == SeqsUpTo(S, n - 1)
         IN shorter \cup { Append(q, e) : q \in { r \in shorter : Len(r) = n - 1 }, e \in S }

Range(q) == { q[k] : k \in 1..Len(q) }

\* min(...) and max(...) of a non-empty list of ints
py_min(q) == CHOOSE m \in Range(q) : \A o \in Range(q) : m <= o
py_max(q) == CHOOSE m \in Range(q) : \A o \in Range(q) : m >= o

\* The elements of a finite set, listed in some order
RECURSIVE SetToSeq(_)
SetToSeq(S) ==
    IF S = {} THEN <<>>
    ELSE LET e == CHOOSE e \in S : TRUE IN <<e>> \o SetToSeq(S \ {e})

\* Number of positions of q holding e
Occurrences(q, e) == Cardinality({ k \in 1..Len(q) : q[k] = e })

-----------------------------------------------------------------------------
(* The functions of executor.py *)

\* generate_elements(x, label): the class label of one record
generate_elements(x) ==
    IF Len(x.int64_list) > 0
    THEN PyInt(x.int64_list[1])
    ELSE IF Len(x.bytes_list) > 0 THEN PyStr(x.bytes_list[1]) ELSE PyNone

\* random.sample replaced by draws with replacement
random_sample_with_replacement(population, k) ==
    { [j \in 1..k |-> population[p[j]]] : p \in [1..k -> 1..Len(population)] }

\* random.sample(population, k): k distinct positions, in any order
random_sample(population, k) ==
    { [j \in 1..k |-> population[p[j]]] :
        p \in { f \in [1..k -> 1..Len(population)] :
                  \A a, b \in 1..k : a # b => f[a] # f[b] } }

\* random.choices(population, k=k): k independent positions
random_choices(population, k) ==
    { [j \in 1..k |-> population[p[j]]] : p \in [1..k -> 1..Len(population)] }

\* sample_data truncating an over-large request instead of raising
sample_data_truncating(group, under, side) ==
    LET k == IF side > Len(group) THEN Len(group) ELSE side
    IN IF under
       THEN { [raised |-> FALSE, out |-> o] : o \in random_sample(group, k) }
       ELSE { [raised |-> FALSE, out |-> o] : o \in random_choices(group, side) }

\* sample_data(_, val, undersample, side): the possible outcomes of one call.
\* random.sample raises ValueError when the sample is larger than the
\* population; the generator then yields nothing.
sample_data(group, under, side) ==
    IF under
    THEN IF side > Len(group) \/ side < 0
         THEN { [raised |-> TRUE, out |-> <<>>] }
         ELSE { [raised |-> FALSE, out |-> o] : o \in random_sample(group, side) }
    ELSE IF Len(group) = 0 /\ side > 0
         THEN { [raised |-> TRUE, out |-> <<>>] }
         ELSE { [raised |-> FALSE, out |-> o] : o \in random_choices(group, side) }

\* filter_null without the `item[0] == 0` branch of line 149
filter_null_falsy_zero(item, keep_null, null_vals) ==
    LET keep0 == py_bool(item[1])
        keep1 == IF null_vals # {} /\ py_str(item[1]) \in null_vals /\ keep0
                 THEN FALSE ELSE keep0
    IN keep1 # keep_null

\* filter_null(item, keep_null, null_vals): TRUE when the item is returned
\* (a non-empty tuple, which beam.Filter keeps), FALSE when None is returned.
\* `null_vals and ...` is false for None and for an empty list alike.
filter_null(item, keep_null, null_vals) ==
    LET keep0 == IF py_eq_zero(item[1]) THEN TRUE ELSE py_bool(item[1])
        keep1 == IF null_vals # {} /\ py_str(item[1]) \in null_vals /\ keep0
                 THEN FALSE ELSE keep0
    IN keep1 # keep_null

\* find_minimum(elements) / find_maximum(elements)
find_minimum(elements) == IF Len(elements) > 0 THEN py_min(elements) ELSE py_min(<<0>>)
find_maximum(elements) == IF Len(elements) > 0 THEN py_max(elements) ELSE py_max(<<0>>)

\* sample_fn = find_minimum if undersample else find_maximum
sample_fn(under, elements) ==
    IF under THEN find_minimum(elements) ELSE find_maximum(elements)

-----------------------------------------------------------------------------
(* The pipeline of sample(): read_tfexamples, sample_examples *)

Labels == { data[k][1] : k \in 1..Len(data) }

\* "MapToLabel": one (class_label, record) pair per record
MapToLabel(records) == [k \in 1..Len(records) |-> <<generate_elements(records[k]), k>>]

\* "CountPerKey": the count of label l over the elements consumed so far
CountPerKey(l) == Cardinality({ k \in 1..counted : data[k][1] = l })

\* "FilterNullCount" | "Values": the counts that reach the combiner
FilterNullCount ==
    SetToSeq({ <<l, CountPerKey(l)>> :
                 l \in { m \in Labels : filter_null(<<m, CountPerKey(m)>>, FALSE, keep_classes) } })
CountValues == [k \in 1..Len(FilterNullCount) |-> FilterNullCount[k][2]]

\* The combiner emitting on a partial count
CountComplete_partial == counted > 0 \/ Len(data) = 0

\* CombineGlobally fires once its input PCollection is complete
CountComplete == counted = Len(data)

\* AsSingleton(val): the side input of "Undersample" is available
SideReady == val_ready

\* "GroupBylabel": the records of label l, as record indices
GroupBylabel(l) ==
    LET hits == SelectSeq(data, LAMBDA e : e[1] = l)
    IN [k \in 1..Len(hits) |-> hits[k][2]]

\* "FilterNull": the groups handed to sample_data
FilterNull == { l \in Labels : filter_null(<<l, GroupBylabel(l)>>, FALSE, keep_classes) }

\* "ExtractNull" without null_vals=keep_classes
ExtractNull_without_null_vals ==
    LET hits == SelectSeq(data, LAMBDA e : filter_null(e, TRUE, {}))
    IN [k \in 1..Len(hits) |-> hits[k][2]]

\* "ExtractNull" | "NullValues": the records passed through
ExtractNull ==
    LET hits == SelectSeq(data, LAMBDA e : filter_null(e, TRUE, keep_classes))
    IN [k \in 1..Len(hits) |-> hits[k][2]]

\* "Merge PCollections": occurrences of each record in Flatten((res, null))
Flatten(r, n) ==
    [k \in 1..Len(input) |->
        Occurrences(n, k)
        + Cardinality({ <<l, j>> \in UNION { {l} \X (1..Len(r[l])) : l \in DOMAIN r } :
                          r[l][j] = k })]

IdleSd ==
    /\ sd_val = <<>> /\ sd_undersample = FALSE /\ sd_side = 0
    /\ sd_called = FALSE /\ sd_raised = FALSE /\ sd_out = <<>>
IdleCb ==
    /\ cb_counts = <<>> /\ cb_undersample = FALSE /\ cb_worker = <<>>
    /\ cb_partial = <<>> /\ cb_result_ready = FALSE /\ cb_result = 0
IdleDo ==
    /\ in_split_names = <<>> /\ splits = {} /\ copy_others = FALSE
    /\ do_pc = "idle" /\ out_split_names = {} /\ split_data = <<>>
    /\ pending = <<>> /\ sampled_splits = {} /\ copied_splits = {}
IdlePipe ==
    /\ input = <<>> /\ keep_classes = {} /\ undersample = FALSE
    /\ data_ready = FALSE /\ data = <<>> /\ counted = 0
    /\ val_ready = FALSE /\ val = 0 /\ sampled = {}
    /\ side_used = <<>> /\ res = <<>> /\ null_done = FALSE /\ null = <<>>
    /\ failed = FALSE /\ merged_done = FALSE /\ merged = <<>>

Init ==
    /\ input \in SeqsUpTo(Examples, MaxRecords)
    /\ keep_classes \in KeepClassesChoices
    /\ undersample \in BOOLEAN
    /\ data_ready = FALSE /\ data = <<>> /\ counted = 0
    /\ val_ready = FALSE /\ val = 0 /\ sampled = {}
    /\ side_used = <<>> /\ res = <<>> /\ null_done = FALSE /\ null = <<>>
    /\ failed = FALSE /\ merged_done = FALSE /\ merged = <<>>
    /\ IdleSd /\ IdleCb /\ IdleDo

\* read_tfexamples: "DatasetToPCollection" | "MapToLabel"
ReadTfexamples ==
    /\ ~data_ready
    /\ data_ready' = TRUE
    /\ data' = MapToLabel(input)
    /\ res' = [l \in { data'[k][1] : k \in 1..Len(data') } |-> <<>>]
    /\ side_used' = [l \in { data'[k][1] : k \in 1..Len(data') } |-> 0]
    /\ UNCHANGED <<input, keep_classes, undersample, counted, val_ready, val,
                   sampled, null_done, null, failed, merged_done, merged>>

\* "CountPerKey" consumes the next element of data
CountElement ==
    /\ data_ready /\ ~failed
    /\ counted < Len(data)
    /\ counted' = counted + 1
    /\ UNCHANGED <<input, keep_classes, undersample, data_ready, data, val_ready,
                   val, sampled, side_used, res, null_done, null, failed,
                   merged_done, merged>>

\* "GetSample": CombineGlobally(sample_fn) emits the singleton
GetSample ==
    /\ data_ready /\ ~failed /\ ~val_ready
    /\ CountComplete
    /\ val_ready' = TRUE
    /\ val' = sample_fn(undersample, CountValues)
    /\ UNCHANGED <<input, keep_classes, undersample, data_ready, data, counted,
                   sampled, side_used, res, null_done, null, failed,
                   merged_done, merged>>

\* "GroupBylabel" | "FilterNull" | "Undersample" for one key:
\* FlatMapTuple(sample_data, undersample, side=AsSingleton(val)) on the group
\* of a label that passed "FilterNull"
Undersample(l) ==
    /\ data_ready /\ ~failed
    /\ SideReady
    /\ l \in FilterNull /\ l \notin sampled
    /\ \E o \in sample_data(GroupBylabel(l), undersample, val) :
          /\ failed' = o.raised
          /\ res' = [res EXCEPT ![l] = o.out]
    /\ sampled' = sampled \cup {l}
    /\ side_used' = [side_used EXCEPT ![l] = val]
    /\ UNCHANGED <<input, keep_classes, undersample, data_ready, data, counted,
                   val_ready, val, null_done, null, merged_done, merged>>

\* "ExtractNull" | "NullValues"
ExtractNullValues ==
    /\ data_ready /\ ~failed /\ ~null_done
    /\ null_done' = TRUE
    /\ null' = ExtractNull
    /\ UNCHANGED <<input, keep_classes, undersample, data_ready, data, counted,
                   val_ready, val, sampled, side_used, res, failed,
                   merged_done, merged>>

\* "Merge PCollections": Flatten of res and null, both complete
Merge ==
    /\ data_ready /\ ~failed /\ ~merged_done
    /\ sampled = FilterNull
    /\ null_done
    /\ merged_done' = TRUE
    /\ merged' = Flatten(res, null)
    /\ UNCHANGED <<input, keep_classes, undersample, data_ready, data, counted,
                   val_ready, val, sampled, side_used, res, null_done,
                   null, failed>>

Next ==
    \/ /\ ReadTfexamples /\ UNCHANGED <<sd_vars, cb_vars, do_vars>>
    \/ /\ CountElement /\ UNCHANGED <<sd_vars, cb_vars, do_vars>>
    \/ /\ GetSample /\ UNCHANGED <<sd_vars, cb_vars, do_vars>>
    \/ /\ \E l \in Labels : Undersample(l)
       /\ UNCHANGED <<sd_vars, cb_vars, do_vars>>
    \/ /\ ExtractNullValues /\ UNCHANGED <<sd_vars, cb_vars, do_vars>>
    \/ /\ Merge /\ UNCHANGED <<sd_vars, cb_vars, do_vars>>

Spec == Init /\ [][Next]_vars

-----------------------------------------------------------------------------
(* Properties of the pipeline, checked under Spec *)

\* The three-way tag of a label as the specification words it
Absent(l) == l.t = "none"
Exempt(l) == ~Absent(l) /\ py_str(l) \in keep_classes
Countable(l) == ~Absent(l) /\ py_str(l) \notin keep_classes
Tag(l) == IF Absent(l) THEN "NULL" ELSE IF Exempt(l) THEN "EXEMPT" ELSE "COUNTABLE"

\* Records of label l in the input, and in the merged output
InCount(l) == Cardinality({ k \in 1..Len(data) : data[k][1] = l })
OutCount(l) ==
    Cardinality({ kj \in UNION { {k} \X (1..merged[k]) : k \in 1..Len(data) } :
                    data[kj[1]][1] = l })

NoRepeats(q) == \A a, b \in 1..Len(q) : a # b => q[a] # q[b]

\* C1 (as claimed): once the output is merged, every countable label (not
\* absent, str(label) not in keep_classes) that occurs in the output occurs
\* exactly val times, val being the singleton of "GetSample".
C1_SizeInvariant ==
    merged_done =>
        \A l \in Labels : (Countable(l) /\ OutCount(l) > 0) => OutCount(l) = val

\* C2: every record whose label is absent or whose str(label) is in
\* keep_classes is never handed to sample_data, is passed through by
\* "ExtractNull" exactly once, and occurs exactly once in the merged output.
C2_Passthrough ==
    /\ \A l \in sampled : ~Absent(l) /\ ~Exempt(l)
    /\ \A k \in 1..Len(data) :
          (Absent(data[k][1]) \/ Exempt(data[k][1])) =>
              /\ \A l \in sampled : k \notin Range(res[l])
              /\ null_done => Occurrences(null, k) = 1
              /\ merged_done => merged[k] = 1

C2_Witness ==
    /\ merged_done
    /\ \E k \in 1..Len(data) : Absent(data[k][1])
    /\ \E k \in 1..Len(data) : Exempt(data[k][1])
    /\ sampled # {}
    /\ val # 1

\* C3 (as claimed): for every label, filter_null(keep_null=False) keeps the
\* item iff it is COUNTABLE and filter_null(keep_null=True) keeps it iff it is
\* NULL or EXEMPT.
C3_PartitionPolicy ==
    \A k \in 1..Len(data) :
        /\ filter_null(data[k], FALSE, keep_classes) <=> Tag(data[k][1]) = "COUNTABLE"
        /\ filter_null(data[k], TRUE, keep_classes) <=> Tag(data[k][1]) \in {"NULL", "EXEMPT"}

\* C4 (as claimed): val is 0 when no label is countable; otherwise the
\* minimum (undersample) or maximum (oversample) of the record counts of the
\* countable labels.
C4_TargetSize ==
    val_ready =>
        LET cs == { InCount(l) : l \in { m \in Labels : Countable(m) } }
        IN val = IF cs = {} THEN 0
                 ELSE IF undersample THEN CHOOSE m \in cs : \A o \in cs : m <= o
                 ELSE CHOOSE m \in cs : \A o \in cs : m >= o

\* C5: when "0" is not in keep_classes, a record whose label feature starts
\* with the integer 0 gets the label 0, is kept by filter_null(keep_null=False)
\* and not by filter_null(keep_null=True), its count reaches the combiner, its
\* group is resampled to val records and it is not passed through by
\* "ExtractNull"; a record without a label gets None and is passed through.
C5_LabelZero ==
    data_ready =>
        \A k \in 1..Len(input) :
            /\ (/\ Len(input[k].int64_list) > 0
                /\ input[k].int64_list[1] = 0
                /\ "0" \notin keep_classes) =>
                   /\ data[k][1] = PyInt(0)
                   /\ filter_null(data[k], FALSE, keep_classes)
                   /\ ~filter_null(data[k], TRUE, keep_classes)
                   /\ PyInt(0) \in FilterNull
                   /\ CountComplete =>
                         \E j \in 1..Len(FilterNullCount) :
                             FilterNullCount[j] = <<PyInt(0), InCount(PyInt(0))>>
                   /\ null_done => k \notin Range(null)
                   /\ merged_done => PyInt(0) \in sampled /\ Len(res[PyInt(0)]) = val
            /\ (Len(input[k].int64_list) = 0 /\ Len(input[k].bytes_list) = 0) =>
                   /\ data[k][1] = PyNone
                   /\ PyNone \notin FilterNull
                   /\ null_done => k \in Range(null)

C5_Witness ==
    /\ merged_done
    /\ "0" \notin keep_classes
    /\ \E k \in 1..Len(input) : Len(input[k].int64_list) > 0 /\ input[k].int64_list[1] = 0
    /\ \E k \in 1..Len(input) : Len(input[k].int64_list) = 0 /\ Len(input[k].bytes_list) = 0
    /\ val > 0

\* C6: when undersampling, the records emitted for a label are records of that
\* label's own group and none of them is emitted twice.
C6_WithoutReplacement ==
    undersample =>
        \A l \in sampled :
            /\ NoRepeats(res[l])
            /\ Range(res[l]) \subseteq { k \in 1..Len(data) : data[k][1] = l }

C6_Witness ==
    /\ undersample
    /\ Cardinality(sampled) >= 2
    /\ \E l \in sampled : Len(res[l]) = 2

\* C8: the singleton val exists only once every element of data has been
\* counted; sample_data has run for a label only if val existed, and every
\* call got that same val as its side argument.
C8_Barrier ==
    /\ val_ready => counted = Len(data)
    /\ sampled # {} => val_ready
    /\ \A l \in sampled : side_used[l] = val

C8_Witness ==
    /\ Cardinality(sampled) >= 2
    /\ val >= 2
    /\ ~merged_done

-----------------------------------------------------------------------------
(* Direct calls of sample_data *)

InitSampleData ==
    /\ sd_val \in { [k \in 1..n |-> k] : n \in 1..MaxGroup }
    /\ sd_undersample \in BOOLEAN
    /\ sd_side \in 0..MaxSide
    /\ sd_called = FALSE /\ sd_raised = FALSE /\ sd_out = <<>>
    /\ IdlePipe /\ IdleCb /\ IdleDo

\* list(sample_data(key, sd_val, sd_undersample, sd_side))
CallSampleData ==
    /\ ~sd_called
    /\ sd_called' = TRUE
    /\ \E o \in sample_data(sd_val, sd_undersample, sd_side) :
          /\ sd_raised' = o.raised
          /\ sd_out' = o.out
    /\ UNCHANGED <<sd_val, sd_undersample, sd_side>>

NextSampleData == CallSampleData /\ UNCHANGED <<pipe_vars, cb_vars, do_vars>>

SpecSampleData == InitSampleData /\ [][NextSampleData]_vars

\* C7: a call of sample_data with undersample=True and side larger than the
\* group raises and emits nothing; a call that does not raise while
\* undersampling emits exactly side records.
C7_OverRequest ==
    (sd_called /\ sd_undersample) =>
        /\ sd_side > Len(sd_val) => (sd_raised /\ sd_out = <<>>)
        /\ ~sd_raised => Len(sd_out) = sd_side

C7_Witness ==
    /\ sd_called /\ sd_undersample
    /\ Len(sd_val) >= 2
    /\ sd_side > Len(sd_val)
    /\ sd_raised

-----------------------------------------------------------------------------
(* find_minimum / find_maximum over worker-local accumulators *)

\* The counts held by worker w's accumulator, in input order
Accumulator(w) ==
    LET idx == SelectSeq([k \in 1..Len(cb_counts) |-> k], LAMBDA k : cb_worker[k] = w)
    IN [j \in 1..Len(idx) |-> cb_counts[idx[j]]]

InitCombine ==
    /\ cb_counts \in SeqsUpTo(1..MaxCount, MaxCounts)
    /\ cb_undersample \in BOOLEAN
    /\ cb_worker \in [1..Len(cb_counts) -> 1..MaxWorkers]
    /\ cb_partial = [w \in 1..MaxWorkers |-> [ready |-> FALSE, v |-> 0]]
    /\ cb_result_ready = FALSE /\ cb_result = 0
    /\ IdlePipe /\ IdleSd /\ IdleDo

\* sample_fn applied to one worker's accumulator
CombineLocal(w) ==
    /\ ~cb_partial[w].ready
    /\ cb_partial' = [cb_partial EXCEPT
                        ![w] = [ready |-> TRUE,
                                v |-> sample_fn(cb_undersample, Accumulator(w))]]
    /\ UNCHANGED <<cb_counts, cb_undersample, cb_worker, cb_result_ready, cb_result>>

\* sample_fn applied to the partial results
CombinePartials ==
    /\ ~cb_result_ready
    /\ \A w \in 1..MaxWorkers : cb_partial[w].ready
    /\ cb_result_ready' = TRUE
    /\ cb_result' = sample_fn(cb_undersample, [w \in 1..MaxWorkers |-> cb_partial[w].v])
    /\ UNCHANGED <<cb_counts, cb_undersample, cb_worker, cb_partial>>

NextCombine ==
    \/ /\ \E w \in 1..MaxWorkers : CombineLocal(w)
       /\ UNCHANGED <<pipe_vars, sd_vars, do_vars>>
    \/ /\ CombinePartials /\ UNCHANGED <<pipe_vars, sd_vars, do_vars>>

SpecCombine == InitCombine /\ [][NextCombine]_vars

\* C9 (as claimed): whatever the split of the counts into accumulators, empty
\* ones included, combining the partial results gives what one application to
\* the full list of counts gives; undersampling at least one count it is not 0.
C9_PartitionIndependent ==
    cb_result_ready =>
        /\ cb_result = sample_fn(cb_undersample, cb_counts)
        /\ (cb_undersample /\ Len(cb_counts) > 0) => cb_result # 0

-----------------------------------------------------------------------------
(* Executor.Do *)

SplitNames == { "train", "eval", "test" }

InitDo ==
    /\ in_split_names \in { q \in SeqsUpTo(SplitNames, Cardinality(SplitNames)) :
                              \A a, b \in 1..Len(q) : a # b => q[a] # q[b] }
    /\ splits \in SUBSET SplitNames
    /\ copy_others \in BOOLEAN
    /\ do_pc = "start"
    /\ out_split_names = {} /\ split_data = <<>> /\ pending = <<>>
    /\ sampled_splits = {} /\ copied_splits = {}
    /\ IdlePipe /\ IdleSd /\ IdleCb

\* output_artifact.split_names is set from the input artifact or from splits
SetSplitNames ==
    /\ do_pc = "start"
    /\ out_split_names' = IF copy_others THEN Range(in_split_names) ELSE splits
    /\ do_pc' = "fetch"
    /\ UNCHANGED <<in_split_names, splits, copy_others, split_data, pending,
                   sampled_splits, copied_splits>>

\* split_data gets one entry per decoded input split name
FetchSplitUris ==
    /\ do_pc = "fetch"
    /\ split_data' = in_split_names
    /\ pending' = in_split_names
    /\ do_pc' = "loop"
    /\ UNCHANGED <<in_split_names, splits, copy_others, out_split_names,
                   sampled_splits, copied_splits>>

\* `if split in splits`: sample(...) writes the split's output
SampleSplit ==
    /\ do_pc = "loop" /\ pending # <<>>
    /\ Head(pending) \in splits
    /\ sampled_splits' = sampled_splits \cup { Head(pending) }
    /\ pending' = Tail(pending)
    /\ UNCHANGED <<in_split_names, splits, copy_others, do_pc, out_split_names,
                   split_data, copied_splits>>

\* `elif copy_others`: every file of the split is copied
CopySplit ==
    /\ do_pc = "loop" /\ pending # <<>>
    /\ Head(pending) \notin splits
    /\ copy_others
    /\ copied_splits' = copied_splits \cup { Head(pending) }
    /\ pending' = Tail(pending)
    /\ UNCHANGED <<in_split_names, splits, copy_others, do_pc, out_split_names,
                   split_data, sampled_splits>>

\* neither branch: the split is left out
OmitSplit ==
    /\ do_pc = "loop" /\ pending # <<>>
    /\ Head(pending) \notin splits
    /\ ~copy_others
    /\ pending' = Tail(pending)
    /\ UNCHANGED <<in_split_names, splits, copy_others, do_pc, out_split_names,
                   split_data, sampled_splits, copied_splits>>

\* the loop over split_data.items() is exhausted and Do returns
ReturnDo ==
    /\ do_pc = "loop" /\ pending = <<>>
    /\ do_pc' = "done"
    /\ UNCHANGED <<in_split_names, splits, copy_others, out_split_names,
                   split_data, pending, sampled_splits, copied_splits>>

NextDo ==
    \/ /\ SetSplitNames /\ UNCHANGED <<pipe_vars, sd_vars, cb_vars>>
    \/ /\ FetchSplitUris /\ UNCHANGED <<pipe_vars, sd_vars, cb_vars>>
    \/ /\ SampleSplit /\ UNCHANGED <<pipe_vars, sd_vars, cb_vars>>
    \/ /\ CopySplit /\ UNCHANGED <<pipe_vars, sd_vars, cb_vars>>
    \/ /\ OmitSplit /\ UNCHANGED <<pipe_vars, sd_vars, cb_vars>>
    \/ /\ ReturnDo /\ UNCHANGED <<pipe_vars, sd_vars, cb_vars>>

SpecDo == InitDo /\ [][NextDo]_vars

\* C10 (as claimed): when Do has returned, every input split was resampled
\* (name in splits), copied (not in splits, copy_others) or omitted (not in
\* splits, not copy_others), exactly one of the three, and every name in the
\* output artifact's split_names has output (resampled or copied).
C10_SplitRouting ==
    do_pc = "done" =>
        /\ \A sp \in Range(in_split_names) :
              /\ sp \in sampled_splits <=> sp \in splits
              /\ sp \in copied_splits <=> (sp \notin splits /\ copy_others)
              /\ ~(sp \in sampled_splits /\ sp \in copied_splits)
        /\ \A sp \in out_split_names : sp \in sampled_splits \cup copied_splits

====
